---- MODULE Spec2Model ----
(***************************************************************************)
(* A model of imqfody.IMQFody (src/imqfody/imqfody.py): one client object  *)
(* owning one requests session.  Every HTTP round trip is two steps: the   *)
(* client issues the request (it is appended to `sent` with the session    *)
(* headers of that moment), then the backend answers and the client code   *)
(* runs on to its next request, its return or its raise.                   *)
(***************************************************************************)
EXTENDS Integers, Sequences, FiniteSets, TLC

VARIABLES
    pc,        \* "new" | "login" | "idle" | "wait" | "raised"
    headers,   \* self._session.headers, a mapping header name -> value
    sent,      \* the session's requests, oldest first: the login request, then those of
               \* the call in progress (the requests of earlier calls are dropped)
    call,      \* the public method being (or last) executed, with its arguments
    frame,     \* locals of the method in progress (stage, ids, loop index, contacts)
    outcome    \* what the current call gave its caller: running, a return or a raise

vars == <<pc, headers, sent, call, frame, outcome>>

(***************************************************************************)
(* Bounds of the model and the value universes the inputs are drawn from.  *)
(***************************************************************************)
MaxIds == 2

Ids == {1, 2}
Tokens == {"abc", "xyz"}
ErrorStatuses == {403, 500}
CountryCodes == {"", "d", "de", "deu", "deut"}
Subqueries == {[type |-> "dict", items |-> [classification |-> "malware"]]}
TicketNumbers == {7}
Limits == {0, 5}
EventIds == {5}
TestHandlers == {"contactdb", "events", "tickets", "checkticket", "contacts", "ContactDB", ""}
TestEndpoints == {<<"ping">>, <<"searchasn">>}

HTTP_OK == 200

SeqsUpTo(S, n) == UNION {[1..k -> S] : k \in 0..n}

(***************************************************************************)
(* Python values.                                                          *)
(***************************************************************************)
None == [py |-> "None"]
EmptyDict == [type |-> "dict", items |-> <<>>]
Dict(items) == [type |-> "dict", items |-> items]
PySet(elems) == [type |-> "set", items |-> elems]

\* The exception classes of the module (lines 7-20) and the builtins it lets escape.
FodyErrors == {"FodyError", "UnknownHandler", "HTTPError", "UnexpectedParameter"}
UnknownHandler == [type |-> "UnknownHandler"]
UnexpectedParameter == [type |-> "UnexpectedParameter"]
HTTPErrorText(status, text) == [type |-> "HTTPError", status |-> status, text |-> text]
HTTPErrorStatus(status) == [type |-> "HTTPError", status |-> status]
KeyError(key) == [type |-> "KeyError", key |-> key]
IndexError == [type |-> "IndexError"]
TypeError == [type |-> "TypeError"]
JSONDecodeError == [type |-> "JSONDecodeError"]

Ok(v) == [ok |-> TRUE, value |-> v]
Err(e) == [ok |-> FALSE, error |-> e]

(***************************************************************************)
(* The backend: what a response to a request may be.  A body is a text     *)
(* that either is JSON (with the value it decodes to) or is not.  A JSON   *)
(* object is a record, a JSON array a record with the one field `array`.   *)
(***************************************************************************)
Json(v) == [json |-> TRUE, text |-> "json", value |-> v]
NotJson == [json |-> FALSE, text |-> "<html>error</html>", value |-> None]
JArray(s) == [array |-> s]

\* The organisation the backend holds under org/<source>/<id>.
Contacts(path) == {[id |-> path[5], source |-> path[4]]}
IdLists == {[manual |-> m, auto |-> a] : m \in SeqsUpTo(Ids, MaxIds), a \in SeqsUpTo(Ids, MaxIds)}
Malformed == {[id |-> 1], [manual |-> <<1>>]}
LoginBodies == {[login_token |-> t] : t \in Tokens} \cup {[error |-> "denied"]}
Plain == {[result |-> 1], [result |-> 2]}
Events == {JArray(<<>>), JArray(<<[id |-> 5]>>), JArray(<<[id |-> 5], [id |-> 6]>>)}
Tickets == {[id |-> 5]}

IsOrgPath(path) == Len(path) = 5 /\ path[3] = "org"
IsIdSearchPath(path) ==
    /\ Len(path) = 3
    /\ path[2] = "contactdb"
    /\ path[3] \in {"searchasn", "searchorg", "searchcontact", "searchcidr",
                    "searchfqdn", "searchnational"}

JsonValues(path) ==
    IF path = <<"api", "login">> THEN LoginBodies
    ELSE IF path = <<"api", "events">> THEN Events
    ELSE IF path = <<"api", "tickets">> THEN Tickets
    ELSE IF IsOrgPath(path) THEN Contacts(path)
    ELSE IF IsIdSearchPath(path) THEN IdLists \cup Malformed
    ELSE Plain

Backend(req) ==
    {[status |-> HTTP_OK, body |-> Json(v)] : v \in JsonValues(req.path)}
    \cup {[status |-> HTTP_OK, body |-> NotJson]}
    \cup {[status |-> s, body |-> NotJson] : s \in ErrorStatuses}

(***************************************************************************)
(* The session: requests carry the session headers of the moment they are  *)
(* issued (requests merges session.headers into every prepared request).   *)
(***************************************************************************)
DefaultHeaders == [Accept |-> "*/*"]

\* Variant: the request is prepared without the session's headers.
Req_NoSessionHeaders(verb, path, data) ==
    [verb |-> verb, path |-> path, data |-> data, headers |-> DefaultHeaders, done |-> FALSE,
     response |-> [status |-> 0, body |-> NotJson]]

Req(verb, path, data) ==
    [verb |-> verb, path |-> path, data |-> data, headers |-> headers, done |-> FALSE,
     response |-> [status |-> 0, body |-> NotJson]]

Completed(log, resp) == [log EXCEPT ![Len(log)].done = TRUE, ![Len(log)].response = resp]

Last(log) == log[Len(log)]

NoFrame == [stage |-> "none"]
Running == [kind |-> "running"]

\* The method raises: the exception reaches the caller.
Raise(log, err) ==
    /\ pc' = "idle"
    /\ sent' = log
    /\ frame' = NoFrame
    /\ outcome' = [kind |-> "raise", error |-> err]

\* The method returns v to the caller.
Return(log, v) ==
    /\ pc' = "idle"
    /\ sent' = log
    /\ frame' = NoFrame
    /\ outcome' = [kind |-> "return", value |-> v]

\* self._session.get(url, data=data): the request goes out and the client blocks.
Get(log, path, data, fr) ==
    /\ pc' = "wait"
    /\ sent' = Append(log, Req("GET", path, data))
    /\ frame' = fr
    /\ outcome' = Running

(***************************************************************************)
(* __init__ and _login.                                                    *)
(***************************************************************************)
Init ==
    /\ pc = "new"
    /\ headers = DefaultHeaders
    /\ sent = <<>>
    /\ call = [method |-> "none", args |-> <<>>]
    /\ frame = NoFrame
    /\ outcome = Running

\* IMQFody(url, username, password): the constructor runs up to the login POST.
Construct ==
    /\ pc = "new"
    /\ pc' = "login"
    /\ call' = [method |-> "__init__", args |-> <<>>]
    /\ sent' = Append(sent, Req("POST", <<"api", "login">>, Dict([username |-> "u", password |-> "p"])))
    /\ frame' = [stage |-> "login"]
    /\ UNCHANGED <<headers, outcome>>

\* Variant: the status of the login response is not looked at.
LoginDecide_NoStatusCheck(resp) ==
    IF ~resp.body.json THEN Err(JSONDecodeError)
    ELSE IF "login_token" \notin DOMAIN resp.body.value THEN Err(KeyError("login_token"))
    ELSE Ok(resp.body.value.login_token)

\* Variant: a missing token is reported as an HTTPError of the module.
LoginDecide_MissingAsHTTPError(resp) ==
    IF resp.status # HTTP_OK THEN Err(HTTPErrorText(resp.status, resp.body.text))
    ELSE IF ~resp.body.json THEN Err(JSONDecodeError)
    ELSE IF "login_token" \notin DOMAIN resp.body.value
         THEN Err(HTTPErrorText(resp.status, resp.body.text))
    ELSE Ok(resp.body.value.login_token)

\* What _login makes of the login response: the token, or the exception raised.
LoginDecide(resp) ==
    IF resp.status # HTTP_OK THEN Err(HTTPErrorText(resp.status, resp.body.text))
    ELSE IF ~resp.body.json THEN Err(JSONDecodeError)
    ELSE IF "login_token" \notin DOMAIN resp.body.value THEN Err(KeyError("login_token"))
    ELSE Ok(resp.body.value.login_token)

\* self._session.headers.update({"Authorization": token})
HeadersUpdate(h, token) ==
    [k \in DOMAIN h \cup {"Authorization"} |-> IF k = "Authorization" THEN token ELSE h[k]]

\* The login response arrives: _login finishes, and with it __init__.
LoginResponse ==
    /\ pc = "login"
    /\ \E resp \in Backend(Last(sent)) :
          LET d == LoginDecide(resp) IN
          /\ sent' = Completed(sent, resp)
          /\ frame' = NoFrame
          /\ IF d.ok
             THEN /\ headers' = HeadersUpdate(headers, d.value)
                  /\ pc' = "idle"
                  /\ outcome' = [kind |-> "return", value |-> None]
             ELSE /\ headers' = headers
                  /\ pc' = "raised"
                  /\ outcome' = [kind |-> "raise", error |-> d.error]
    /\ UNCHANGED call

(***************************************************************************)
(* _search, in its two halves around the round trip.                       *)
(***************************************************************************)
Handlers == {"contactdb", "events", "tickets", "checkticket"}

\* Variant: the handler is not checked.
SearchCall_NoHandlerCheck(log, handler, endpoint, query, fr) ==
    Get(log, <<"api", handler>> \o endpoint, query, fr)

\* Lines 56-58: the handler check, then the GET.
SearchCall(log, handler, endpoint, query, fr) ==
    IF handler \notin Handlers
    THEN Raise(log, UnknownHandler)
    ELSE Get(log, <<"api", handler>> \o endpoint, query, fr)

\* Lines 59-63: the status check and json.loads.
SearchDecode(resp) ==
    IF resp.status # HTTP_OK THEN Err(HTTPErrorText(resp.status, resp.body.text))
    ELSE IF ~resp.body.json THEN Err(JSONDecodeError)
    ELSE Ok(resp.body.value)

(***************************************************************************)
(* _get_contacts_from_id_list: the two loops, each iteration one _search.  *)
(***************************************************************************)
AutoLoop(log, ids, i, contacts) ==
    IF "auto" \notin DOMAIN ids THEN Raise(log, KeyError("auto"))
    ELSE IF i <= Len(ids.auto)
    THEN SearchCall(log, "contactdb", <<"org", "auto", ids.auto[i]>>, EmptyDict,
                    [stage |-> "auto", ids |-> ids, i |-> i, contacts |-> contacts])
    ELSE Return(log, contacts)

ManualLoop(log, ids, i, contacts) ==
    IF "manual" \notin DOMAIN ids THEN Raise(log, KeyError("manual"))
    ELSE IF i <= Len(ids.manual)
    THEN SearchCall(log, "contactdb", <<"org", "manual", ids.manual[i]>>, EmptyDict,
                    [stage |-> "manual", ids |-> ids, i |-> i, contacts |-> contacts])
    ELSE AutoLoop(log, ids, 1, contacts)

GetContactsFromIdList(log, ids) == ManualLoop(log, ids, 1, <<>>)

\* Variant: the new contact is put in front of the list.
AppendContact_Prepend(log, fr, contact) ==
    IF fr.stage = "manual"
    THEN ManualLoop(log, fr.ids, fr.i + 1, <<contact>> \o fr.contacts)
    ELSE AutoLoop(log, fr.ids, fr.i + 1, <<contact>> \o fr.contacts)

\* Variant: an id equal to the one just fetched is not fetched again.
AppendContact_SkipRepeat(log, fr, contact) ==
    LET list == IF fr.stage = "manual" THEN fr.ids.manual ELSE fr.ids.auto
        next == IF fr.i + 1 <= Len(list) /\ list[fr.i + 1] = list[fr.i] THEN fr.i + 2 ELSE fr.i + 1
    IN  IF fr.stage = "manual"
        THEN ManualLoop(log, fr.ids, next, Append(fr.contacts, contact))
        ELSE AutoLoop(log, fr.ids, next, Append(fr.contacts, contact))

\* contacts.append(self._search(...)) and the loop's next iteration.
AppendContact(log, fr, contact) ==
    IF fr.stage = "manual"
    THEN ManualLoop(log, fr.ids, fr.i + 1, Append(fr.contacts, contact))
    ELSE AutoLoop(log, fr.ids, fr.i + 1, Append(fr.contacts, contact))

(***************************************************************************)
(* The public methods.  A call starts on a constructed, idle client, with  *)
(* the log cut back to the login request.                                  *)
(***************************************************************************)
LoginLog == SubSeq(sent, 1, 1)

Begin(method, args) ==
    /\ pc = "idle"
    /\ call' = [method |-> method, args |-> args]
    /\ UNCHANGED headers

\* A method of the shape `return self._search(handler, endpoint, query)`.
PlainSearch(handler, endpoint, query) ==
    SearchCall(LoginLog, handler, endpoint, query, [stage |-> "plain"])

\* A method of the shape `result = self._search(...); return self._get_contacts_from_id_list(result)`.
ContactSearch(endpoint, query) ==
    SearchCall(LoginLog, "contactdb", endpoint, query, [stage |-> "idlist"])

\* The private dispatcher called directly, with any handler.
call_search(handler, endpoint, query) ==
    /\ Begin("_search", <<handler, endpoint, query>>)
    /\ PlainSearch(handler, endpoint, query)

get_api_documentation ==
    /\ Begin("get_api_documentation", <<>>)
    /\ Get(LoginLog, <<>>, None, [stage |-> "doc"])

ping ==
    /\ Begin("ping", <<>>)
    /\ PlainSearch("contactdb", <<"ping">>, EmptyDict)

search_asn(asn) ==
    /\ Begin("search_asn", <<asn>>)
    /\ ContactSearch(<<"searchasn">>, Dict([asn |-> asn]))

search_org(name) ==
    /\ Begin("search_org", <<name>>)
    /\ ContactSearch(<<"searchorg">>, Dict([name |-> name]))

search_email(email) ==
    /\ Begin("search_email", <<email>>)
    /\ ContactSearch(<<"searchcontact">>, Dict([email |-> email]))

search_cidr(cidr) ==
    /\ Begin("search_cidr", <<cidr>>)
    /\ ContactSearch(<<"searchcidr">>, Dict([address |-> cidr]))

\* return self.search_cidr(ip)
search_ip(ip) ==
    /\ Begin("search_ip", <<ip>>)
    /\ ContactSearch(<<"searchcidr">>, Dict([address |-> ip]))

search_fqdn(fqdn) ==
    /\ Begin("search_fqdn", <<fqdn>>)
    /\ ContactSearch(<<"searchfqdn">>, Dict([domain |-> fqdn]))

\* Variant: the upper limit is off by one.
CountryCodeRejected_OffByOne(cc) == Len(cc) < 2 \/ Len(cc) >= 3

\* Line 160: the length check of search_national.
CountryCodeRejected(cc) == Len(cc) < 2 \/ Len(cc) > 3

\* Line 162: the query is the set literal {'countrycode', cc}.
NationalQuery(cc) == PySet({"countrycode", cc})

search_national(cc) ==
    /\ Begin("search_national", <<cc>>)
    /\ IF CountryCodeRejected(cc)
       THEN Raise(LoginLog, UnexpectedParameter)
       ELSE ContactSearch(<<"searchnational">>, NationalQuery(cc))

get_event(id) ==
    /\ Begin("get_event", <<id>>)
    /\ Get(LoginLog, <<"api", "events">>, Dict([id |-> id]), [stage |-> "event"])

get_event_subqueries ==
    /\ Begin("get_event_subqueries", <<>>)
    /\ PlainSearch("events", <<"subqueries">>, EmptyDict)

search_event(subquery) ==
    /\ Begin("search_event", <<subquery>>)
    /\ PlainSearch("events", <<"search">>, subquery)

get_event_stats(subquery) ==
    /\ Begin("get_event_stats", <<subquery>>)
    /\ PlainSearch("events", <<"stats">>, subquery)

export_events(subquery) ==
    /\ Begin("export_events", <<subquery>>)
    /\ PlainSearch("events", <<"export">>, subquery)

get_ticket(id) ==
    /\ Begin("get_ticket", <<id>>)
    /\ Get(LoginLog, <<"api", "tickets">>, Dict([id |-> id]), [stage |-> "ticket"])

get_ticket_subqueries ==
    /\ Begin("get_ticket_subqueries", <<>>)
    /\ PlainSearch("tickets", <<"subqueries">>, EmptyDict)

search_ticket(subquery) ==
    /\ Begin("search_ticket", <<subquery>>)
    /\ PlainSearch("tickets", <<"search">>, subquery)

get_ticket_stats(subquery) ==
    /\ Begin("get_ticket_stats", <<subquery>>)
    /\ PlainSearch("tickets", <<"stats">>, subquery)

get_ticket_recipient(ticket_number) ==
    /\ Begin("get_ticket_recipient", <<ticket_number>>)
    /\ PlainSearch("tickets", <<"getRecipient">>, Dict([ticketnumber |-> ticket_number]))

get_ticket_event_ids(ticket_number) ==
    /\ Begin("get_ticket_event_ids", <<ticket_number>>)
    /\ PlainSearch("checkticket", <<"getEventIDsForTicket">>, Dict([ticket |-> ticket_number]))

\* Line 280: the _search call is a statement, its value is dropped.
get_ticket_events(ticket_number, limit) ==
    /\ Begin("get_ticket_events", <<ticket_number, limit>>)
    /\ SearchCall(LoginLog, "checkticket", <<"getEventsForTicket">>,
                  Dict([ticket |-> ticket_number, limit |-> limit]), [stage |-> "discard"])

get_last_ticket_number ==
    /\ Begin("get_last_ticket_number", <<>>)
    /\ PlainSearch("checkticket", <<"getLastTicketNumber">>, EmptyDict)

(***************************************************************************)
(* The response arrives and the blocked method runs on.                    *)
(***************************************************************************)
\* return self._search(...)
PlainContinue(log, d) ==
    IF d.ok THEN Return(log, d.value) ELSE Raise(log, d.error)

\* self._search(...) as a statement: the function falls off its end.
DiscardContinue(log, d) ==
    IF d.ok THEN Return(log, None) ELSE Raise(log, d.error)

\* result = self._search(...); return self._get_contacts_from_id_list(result)
IdListContinue(log, d) ==
    IF d.ok THEN GetContactsFromIdList(log, d.value) ELSE Raise(log, d.error)

\* Variant: a failed lookup is skipped and the loop goes on.
OrgContinue_SkipFailed(log, fr, d) ==
    IF d.ok THEN AppendContact(log, fr, d.value)
    ELSE IF fr.stage = "manual" THEN ManualLoop(log, fr.ids, fr.i + 1, fr.contacts)
    ELSE AutoLoop(log, fr.ids, fr.i + 1, fr.contacts)

\* contacts.append(self._search(...)) inside the loops
OrgContinue(log, fr, d) ==
    IF d.ok THEN AppendContact(log, fr, d.value) ELSE Raise(log, d.error)

\* Lines 175-177: get_event
EventContinue(log, resp) ==
    IF resp.status = HTTP_OK
    THEN IF ~resp.body.json THEN Raise(log, JSONDecodeError)
         ELSE IF "array" \notin DOMAIN resp.body.value THEN Raise(log, KeyError("0"))
         ELSE IF Len(resp.body.value.array) = 0 THEN Raise(log, IndexError)
         ELSE Return(log, resp.body.value.array[1])
    ELSE Raise(log, HTTPErrorStatus(resp.status))

\* Lines 224-226: get_ticket
TicketContinue(log, resp) ==
    IF resp.status = HTTP_OK
    THEN IF ~resp.body.json THEN Raise(log, JSONDecodeError)
         ELSE Return(log, resp.body.value)
    ELSE Raise(log, HTTPErrorStatus(resp.status))

\* Line 81: json.loads is handed the Response object, not its text.
DocContinue(log, resp) == Raise(log, TypeError)

Waiting(stages) == pc = "wait" /\ frame.stage \in stages

PlainResponse ==
    /\ Waiting({"plain"})
    /\ \E resp \in Backend(Last(sent)) : PlainContinue(Completed(sent, resp), SearchDecode(resp))
    /\ UNCHANGED <<headers, call>>

DiscardResponse ==
    /\ Waiting({"discard"})
    /\ \E resp \in Backend(Last(sent)) : DiscardContinue(Completed(sent, resp), SearchDecode(resp))
    /\ UNCHANGED <<headers, call>>

IdListResponse ==
    /\ Waiting({"idlist"})
    /\ \E resp \in Backend(Last(sent)) : IdListContinue(Completed(sent, resp), SearchDecode(resp))
    /\ UNCHANGED <<headers, call>>

OrgResponse ==
    /\ Waiting({"manual", "auto"})
    /\ \E resp \in Backend(Last(sent)) : OrgContinue(Completed(sent, resp), frame, SearchDecode(resp))
    /\ UNCHANGED <<headers, call>>

EventResponse ==
    /\ Waiting({"event"})
    /\ \E resp \in Backend(Last(sent)) : EventContinue(Completed(sent, resp), resp)
    /\ UNCHANGED <<headers, call>>

TicketResponse ==
    /\ Waiting({"ticket"})
    /\ \E resp \in Backend(Last(sent)) : TicketContinue(Completed(sent, resp), resp)
    /\ UNCHANGED <<headers, call>>

DocResponse ==
    /\ Waiting({"doc"})
    /\ \E resp \in Backend(Last(sent)) : DocContinue(Completed(sent, resp), resp)
    /\ UNCHANGED <<headers, call>>

Next ==
    \/ Construct
    \/ LoginResponse
    \/ \E h \in TestHandlers, e \in TestEndpoints : call_search(h, e, EmptyDict)
    \/ get_api_documentation
    \/ ping
    \/ search_asn("1234")
    \/ search_org("example")
    \/ search_email("abuse@example.org")
    \/ search_cidr("192.0.2.0/24")
    \/ search_ip("192.0.2.1")
    \/ search_fqdn("example.org")
    \/ \E cc \in CountryCodes : search_national(cc)
    \/ \E id \in EventIds : get_event(id)
    \/ get_event_subqueries
    \/ \E q \in Subqueries : search_event(q)
    \/ \E q \in Subqueries : get_event_stats(q)
    \/ \E q \in Subqueries : export_events(q)
    \/ \E id \in EventIds : get_ticket(id)
    \/ get_ticket_subqueries
    \/ \E q \in Subqueries : search_ticket(q)
    \/ \E q \in Subqueries : get_ticket_stats(q)
    \/ \E n \in TicketNumbers : get_ticket_recipient(n)
    \/ \E n \in TicketNumbers : get_ticket_event_ids(n)
    \/ \E n \in TicketNumbers, l \in Limits : get_ticket_events(n, l)
    \/ get_last_ticket_number
    \/ PlainResponse
    \/ DiscardResponse
    \/ IdListResponse
    \/ OrgResponse
    \/ EventResponse
    \/ TicketResponse
    \/ DocResponse

Spec == Init /\ [][Next]_vars

(***************************************************************************)
(* Properties.                                                             *)
(***************************************************************************)
Constructed == pc \in {"idle", "wait"}
Returned == pc = "idle" /\ outcome.kind = "return"
Raised == pc = "idle" /\ outcome.kind = "raise"
LoginEntry == sent[1]
HasAuthorization(h) == "Authorization" \in DOMAIN h

ContactMethods ==
    {"search_asn", "search_org", "search_email", "search_cidr", "search_ip", "search_fqdn"}

\* The id list the first response of a contact search decoded to.
FetchedIds == sent[2].response.body.value

Decoded(entry) == entry.response.body.value

OrgPath(source, id) == <<"api", "contactdb", "org", source, id>>

\* The path of the j-th per-id request for the id list ids.
ExpectedOrgPath(ids, j) ==
    IF j <= Len(ids.manual)
    THEN OrgPath("manual", ids.manual[j])
    ELSE OrgPath("auto", ids.auto[j - Len(ids.manual)])

SearchEndpoint(method) ==
    CASE method = "search_asn" -> "searchasn"
      [] method = "search_org" -> "searchorg"
      [] method = "search_email" -> "searchcontact"
      [] method = "search_cidr" -> "searchcidr"
      [] method = "search_ip" -> "searchcidr"
      [] method = "search_fqdn" -> "searchfqdn"
      [] method = "search_national" -> "searchnational"

\* C1: once login returned token T, every request issued afterwards (by _search,
\* by the per-id organisation lookups, by get_event / get_ticket) carries the
\* header Authorization = T, and the session keeps that header unchanged.
C1_AuthorizationOnEveryRequest ==
    Constructed =>
        LET T == Decoded(LoginEntry).login_token IN
        /\ HasAuthorization(headers) /\ headers.Authorization = T
        /\ \A i \in 2..Len(sent) :
              HasAuthorization(sent[i].headers) /\ sent[i].headers.Authorization = T

C1_Witness ==
    /\ pc = "idle"
    /\ call.method = "search_cidr"
    /\ Len(sent) = 4
    /\ Decoded(LoginEntry).login_token = "xyz"

\* C2: _search with a handler outside {contactdb, events, tickets, checkticket}
\* raises UnknownHandler and issues no request, whatever the endpoint and query.
C2_UnknownHandlerNoRequest ==
    (call.method = "_search" /\ call.args[1] \notin {"contactdb", "events", "tickets", "checkticket"}) =>
        /\ pc = "idle"
        /\ outcome = [kind |-> "raise", error |-> UnknownHandler]
        /\ Len(sent) = 1

C2_Witness ==
    /\ call.method = "_search"
    /\ call.args[1] = "ContactDB"
    /\ call.args[2] = <<"searchasn">>
    /\ Raised

\* C3: when every sub-request succeeds, _get_contacts_from_id_list returns exactly
\* k+n records: those fetched for the manual ids in list order, then those fetched
\* for the auto ids in list order, nothing dropped, merged or moved.
C3_ContactsInIdOrder ==
    (call.method \in ContactMethods /\ Returned) =>
        LET ids == FetchedIds
            total == Len(ids.manual) + Len(ids.auto) IN
        /\ Len(outcome.value) = total
        /\ \A j \in 1..total :
              /\ sent[2 + j].path = ExpectedOrgPath(ids, j)
              /\ outcome.value[j] = Decoded(sent[2 + j])

C3_Witness ==
    /\ call.method = "search_asn"
    /\ Returned
    /\ FetchedIds = [manual |-> <<2, 1>>, auto |-> <<2>>]
    /\ outcome.value = <<[id |-> 2, source |-> "manual"], [id |-> 1, source |-> "manual"],
                         [id |-> 2, source |-> "auto"]>>

\* C4: a per-id sub-request answered with a non-200 status fails the whole
\* resolution with that HTTPError: no contact list is returned and no further
\* per-id request is issued.
C4_FailFast ==
    call.method \in ContactMethods =>
        \A i \in 3..Len(sent) :
            (sent[i].done /\ sent[i].response.status # 200) =>
                /\ i = Len(sent)
                /\ pc = "idle"
                /\ outcome = [kind |-> "raise",
                              error |-> HTTPErrorText(sent[i].response.status,
                                                      sent[i].response.body.text)]

C4_Witness ==
    /\ call.method = "search_org"
    /\ Len(sent) = 4
    /\ Len(FetchedIds.manual) + Len(FetchedIds.auto) = 4
    /\ sent[4].done
    /\ sent[4].response.status = 500
    /\ Raised

\* C5: a non-200 login response makes login raise HTTPError with the status code
\* and the body text; no Authorization header is stored, construction does not
\* complete, and nothing more can be done on that session.
C5_LoginHTTPError ==
    (Len(sent) >= 1 /\ LoginEntry.done /\ LoginEntry.response.status # 200) =>
        /\ pc = "raised"
        /\ outcome = [kind |-> "raise",
                      error |-> HTTPErrorText(LoginEntry.response.status,
                                              LoginEntry.response.body.text)]
        /\ ~HasAuthorization(headers)
        /\ Len(sent) = 1
        /\ ~ENABLED Next

C5_Witness ==
    /\ pc = "raised"
    /\ LoginEntry.response.status = 403
    /\ outcome.error.status = 403

MissingToken ==
    /\ Len(sent) >= 1
    /\ LoginEntry.done
    /\ LoginEntry.response.status = 200
    /\ LoginEntry.response.body.json
    /\ "login_token" \notin DOMAIN Decoded(LoginEntry)

\* C6 as stated: a 200 login response without login_token raises a dedicated
\* MissingTokenError of the client's own error classes, and stores no header.
C6_Original_MissingTokenError ==
    MissingToken =>
        /\ pc = "raised"
        /\ outcome.kind = "raise"
        /\ outcome.error.type = "MissingTokenError"
        /\ ~HasAuthorization(headers)

\* C6 as amended: a 200 login response without login_token raises the builtin
\* KeyError, which is none of the client's own error classes; no Authorization
\* header is stored and construction does not complete.
C6_MissingTokenKeyError ==
    MissingToken =>
        /\ pc = "raised"
        /\ outcome = [kind |-> "raise", error |-> KeyError("login_token")]
        /\ outcome.error.type \notin FodyErrors
        /\ ~HasAuthorization(headers)

C6_Witness ==
    /\ MissingToken
    /\ pc = "raised"
    /\ outcome.error.type = "KeyError"

\* C7: get_ticket_events returns the decoded value of its _search call when the
\* backend answers 200 with a JSON body.
C7_TicketEventsReturnsValue ==
    (/\ call.method = "get_ticket_events"
     /\ pc = "idle"
     /\ sent[2].done
     /\ sent[2].response.status = 200
     /\ sent[2].response.body.json) =>
        outcome = [kind |-> "return", value |-> Decoded(sent[2])]

\* C8: search_national raises UnexpectedParameter, before any request, exactly for
\* the country codes shorter than 2 or longer than 3; a code of length 2 or 3
\* passes the check and the search request goes out.
C8_CountryCodeLength ==
    call.method = "search_national" =>
        IF Len(call.args[1]) \in {2, 3}
        THEN /\ Len(sent) >= 2
             /\ outcome.kind = "raise" => outcome.error.type # "UnexpectedParameter"
        ELSE /\ pc = "idle"
             /\ outcome = [kind |-> "raise", error |-> UnexpectedParameter]
             /\ Len(sent) = 1

C8_Witness ==
    /\ call.method = "search_national"
    /\ call.args = <<"deut">>
    /\ Raised
    /\ Len(sent) = 1

\* C9: for a country code of length 2 or 3, the searchnational request carries a
\* mapping that binds the key countrycode to the code.
C9_NationalQueryIsMapping ==
    (call.method = "search_national" /\ Len(sent) >= 2) =>
        /\ sent[2].path = <<"api", "contactdb", "searchnational">>
        /\ sent[2].data.type = "dict"
        /\ DOMAIN sent[2].data.items = {"countrycode"}
        /\ sent[2].data.items.countrycode = call.args[1]

\* C10: a successful contact-db search whose id list has k manual and n auto ids
\* issues exactly 1 + k + n GET requests, one after the other: the search request,
\* then org/manual/{id} per manual id in list order, then org/auto/{id} per auto
\* id in list order, once per occurrence; no request is issued while an earlier
\* one is unanswered.
C10_SequentialRequests ==
    call.method \in ContactMethods =>
        /\ \A i \in 1..(Len(sent) - 1) : sent[i].done
        /\ \A i \in 2..Len(sent) : sent[i].verb = "GET"
        /\ Len(sent) >= 2 /\ sent[2].path = <<"api", "contactdb", SearchEndpoint(call.method)>>
        /\ Returned =>
              LET ids == FetchedIds
                  total == Len(ids.manual) + Len(ids.auto) IN
              /\ Len(sent) = 1 + 1 + total
              /\ \A j \in 1..total : sent[2 + j].path = ExpectedOrgPath(ids, j)

C10_Witness ==
    /\ call.method = "search_ip"
    /\ Returned
    /\ FetchedIds = [manual |-> <<1, 1>>, auto |-> <<1, 2>>]
    /\ Len(sent) = 6

====
